---- MODULE Spec2Model ----
(***************************************************************************)
(* Model of .github/scripts/detect_github_holiday_colors.py: the colour   *)
(* classifier, the theme matcher, the scheme generator and the            *)
(* orchestrator main().                                                    *)
(*                                                                         *)
(* A colour string '#xxxxxx' is modelled by the sequence of the           *)
(* characters that follow the '#'.  Characters are codes: 0..9 are the    *)
(* digits '0'..'9', 10..15 the letters 'A'..'F', 16..21 the letters       *)
(* 'a'..'f' and 22 a letter that is not a hexadecimal digit.  The order   *)
(* of the codes 0..15 and 22 is the order of the characters in ASCII.     *)
(* In joined output strings 23 is '#', 24 is ',' and 25 is ' '.           *)
(***************************************************************************)
EXTENDS Integers, Sequences, FiniteSets, TLC

\* None where a dict or a document is expected.
None == [none |-> TRUE]

\* None where a list is expected.  Every list the program builds in these
\* places is non-empty, and the program only tests such values with "not".
NoneList == <<>>

\* None where a holiday name is expected.
NoneName == "None"

\* The exception int(s, 16) raises on the empty string or a non-hex character.
ValueError == [raised |-> "ValueError"]

Min(S) == CHOOSE x \in S : \A y \in S : x <= y

(***************************************************************************)
(* Strings: slicing, upper(), int(s, 16), ordering                         *)
(***************************************************************************)

\* Python's s[a:b] on the whole string (position 0 is the '#'), for 1 <= a:
\* the characters a..b-1 of the body, clipped to the length of the string.
Slice(body, a, b) == SubSeq(body, a, IF b - 1 < Len(body) THEN b - 1 ELSE Len(body))

\* str.upper() on one character.
UpperChar(ch) == IF ch \in 16..21 THEN ch - 6 ELSE ch

upper(body) == [i \in 1..Len(body) |-> UpperChar(body[i])]

IsHexChar(ch) == ch \in 0..21

HexVal(ch) == IF ch \in 16..21 THEN ch - 6 ELSE ch

\* int(s, 16) raises ValueError on these strings.
IntRaises(s) == s = <<>> \/ \E i \in 1..Len(s) : ~IsHexChar(s[i])

RECURSIVE IntValue(_)
\* int(s, 16) for a string on which it does not raise.
IntValue(s) == IF s = <<>> THEN 0
               ELSE 16 * IntValue(SubSeq(s, 1, Len(s) - 1)) + HexVal(s[Len(s)])

\* The three channel strings hex_color[1:3], hex_color[3:5], hex_color[5:7].
ChannelStrings(body) == <<Slice(body, 1, 3), Slice(body, 3, 5), Slice(body, 5, 7)>>

\* Decomposing a colour into r, g, b raises ValueError.
ParseRaises(body) == \E k \in 1..3 : IntRaises(ChannelStrings(body)[k])

Red(body) == IntValue(ChannelStrings(body)[1])

Green(body) == IntValue(ChannelStrings(body)[2])

Blue(body) == IntValue(ChannelStrings(body)[3])

\* The colour '#RRGGBB' with the given channel values, in upper case.
Hex(r, g, b) == <<r \div 16, r % 16, g \div 16, g % 16, b \div 16, b % 16>>

RECURSIVE StrLess(_, _)
\* s < t for Python strings (lexicographic, a proper prefix is smaller).
StrLess(s, t) == IF t = <<>> THEN FALSE
                 ELSE IF s = <<>> THEN TRUE
                 ELSE IF Head(s) # Head(t) THEN Head(s) < Head(t)
                 ELSE StrLess(Tail(s), Tail(t))

RECURSIVE sorted(_)
\* list(sorted(colors)) of a set of strings.
sorted(S) == IF S = {} THEN <<>>
             ELSE LET m == CHOOSE x \in S : \A y \in S \ {x} : StrLess(x, y)
                  IN <<m>> \o sorted(S \ {m})

\* set(colors) of a list.
set(list) == {list[i] : i \in 1..Len(list)}

RECURSIVE IterationOrders(_)
\* The orders in which Python may iterate over a set of strings: the hash of
\* a string differs from run to run, so every order can occur.
IterationOrders(S) ==
    IF S = {} THEN {<<>>}
    ELSE UNION {{<<x>> \o q : q \in IterationOrders(S \ {x})} : x \in S}

(***************************************************************************)
(* Colour classifier                                                       *)
(***************************************************************************)

\* is_orange_ish without the upper bound g < r on the green channel.
is_orange_ish_no_upper(hex_color) ==
    LET r == Red(hex_color)
        g == Green(hex_color)
        b == Blue(hex_color)
    IN r > 200 /\ 100 < g /\ b < 150

\* r > 200 and 100 < g < r and b < 150
is_orange_ish(hex_color) ==
    LET r == Red(hex_color)
        g == Green(hex_color)
        b == Blue(hex_color)
    IN r > 200 /\ 100 < g /\ g < r /\ b < 150

\* (r + g + b) / 3 < 80; the quotient is exact at 240 / 3, so this is r+g+b < 240.
is_dark_color(hex_color) ==
    LET r == Red(hex_color)
        g == Green(hex_color)
        b == Blue(hex_color)
    IN r + g + b < 240

\* r > 150 and r > g * 1.5 and r > b * 1.5.  g * 1.5 is exact in binary
\* floating point, so the comparison is 2r > 3g.
\* is_red_ish without the comparisons of red against green and blue.
is_red_ish_red_only(hex_color) ==
    LET r == Red(hex_color)
    IN r > 150

is_red_ish(hex_color) ==
    LET r == Red(hex_color)
        g == Green(hex_color)
        b == Blue(hex_color)
    IN r > 150 /\ 2 * r > 3 * g /\ 2 * r > 3 * b

\* is_green_ish with the threshold 100 of is_orange_ish in place of 150.
is_green_ish_low_threshold(hex_color) ==
    LET r == Red(hex_color)
        g == Green(hex_color)
        b == Blue(hex_color)
    IN g > 100 /\ 5 * g > 6 * r /\ 5 * g > 6 * b

\* g > 150 and g > r * 1.2 and g > b * 1.2.  For all integers 0..255 the
\* floating-point comparison g > r * 1.2 agrees with 5g > 6r.
is_green_ish(hex_color) ==
    LET r == Red(hex_color)
        g == Green(hex_color)
        b == Blue(hex_color)
    IN g > 150 /\ 5 * g > 6 * r /\ 5 * g > 6 * b

\* any(...) over the outcomes of the calls pred(c), in iteration order: the
\* first call that either raises or returns True decides.
any(calls) ==
    LET hits == {i \in 1..Len(calls) : calls[i].raised \/ calls[i].value}
    IN IF hits = {} THEN [raised |-> FALSE, value |-> FALSE]
       ELSE IF calls[Min(hits)].raised THEN [raised |-> TRUE, value |-> FALSE]
       ELSE [raised |-> FALSE, value |-> TRUE]

\* The outcome of one predicate call on hex_color: it raises when the colour
\* does not parse and returns its value otherwise.
is_orange_ish_call(hex_color) ==
    [raised |-> ParseRaises(hex_color),
     value |-> ~ParseRaises(hex_color) /\ is_orange_ish(hex_color)]

is_dark_color_call(hex_color) ==
    [raised |-> ParseRaises(hex_color),
     value |-> ~ParseRaises(hex_color) /\ is_dark_color(hex_color)]

is_red_ish_call(hex_color) ==
    [raised |-> ParseRaises(hex_color),
     value |-> ~ParseRaises(hex_color) /\ is_red_ish(hex_color)]

is_green_ish_call(hex_color) ==
    [raised |-> ParseRaises(hex_color),
     value |-> ~ParseRaises(hex_color) /\ is_green_ish(hex_color)]

(***************************************************************************)
(* Theme matcher                                                           *)
(***************************************************************************)

\* The literal '#rrggbb' written with two hex digits per channel.
FFA500 == Hex(255, 165, 0)
FF8C00 == Hex(255, 140, 0)
FF6347 == Hex(255, 99, 71)
x8B4513 == Hex(139, 69, 19)
x000000 == Hex(0, 0, 0)
FF4500 == Hex(255, 69, 0)
FF7F00 == Hex(255, 127, 0)
FFA07A == Hex(255, 160, 122)
CD5C5C == Hex(205, 92, 92)
x8B0000 == Hex(139, 0, 0)
FF0000 == Hex(255, 0, 0)
x00FF00 == Hex(0, 255, 0)
FFD700 == Hex(255, 215, 0)
FFFFFF == Hex(255, 255, 255)
DC143C == Hex(220, 20, 60)
x228B22 == Hex(34, 139, 34)
FFFF00 == Hex(255, 255, 0)
x008000 == Hex(0, 128, 0)
x0000FF == Hex(0, 0, 255)
x800080 == Hex(128, 0, 128)
x006400 == Hex(0, 100, 0)
FF1493 == Hex(255, 20, 147)
FF69B4 == Hex(255, 105, 180)
FFB6C1 == Hex(255, 182, 193)
EBEDF0 == Hex(235, 237, 240)
x9BE9A8 == Hex(155, 233, 168)
x40C463 == Hex(64, 196, 99)
x30A14E == Hex(48, 161, 78)
x216E39 == Hex(33, 110, 57)
x161B22 == Hex(22, 27, 34)
x0E4429 == Hex(14, 68, 41)
x006D32 == Hex(0, 109, 50)
x26A641 == Hex(38, 166, 65)
x39D353 == Hex(57, 211, 83)

\* holiday_patterns, in the insertion order in which the dict is iterated.
holiday_patterns == <<
    [name |-> "halloween",
     colors |-> {FFA500, FF8C00, FF6347, x8B4513, x000000,
                 FF4500, FF7F00, FFA07A, CD5C5C, x8B0000},
     date_range |-> <<10, 1, 11, 1>>,
     description |-> "Halloween Theme (Orange & Black)"],
    [name |-> "christmas",
     colors |-> {FF0000, x00FF00, FFD700, FFFFFF, DC143C, x228B22},
     date_range |-> <<12, 1, 12, 31>>,
     description |-> "Christmas Theme (Red & Green)"],
    [name |-> "lunar_new_year",
     colors |-> {FF0000, FFD700, FFA500, DC143C, FF6347},
     date_range |-> <<1, 20, 2, 20>>,
     description |-> "Lunar New Year Theme (Red & Gold)"],
    [name |-> "pride",
     colors |-> {FF0000, FFA500, FFFF00, x008000, x0000FF, x800080},
     date_range |-> <<6, 1, 6, 30>>,
     description |-> "Pride Month Theme (Rainbow)"] >>

default_light == {EBEDF0, x9BE9A8, x40C463, x30A14E, x216E39}

default_dark == {x161B22, x0E4429, x006D32, x26A641, x39D353}

\* The date range check with "and" for "or" in the last line of the branch
\* for ranges that wrap around the year end.
in_range_wrap_and(date_range, month, day) ==
    LET start_m == date_range[1]
        start_d == date_range[2]
        end_m == date_range[3]
        end_d == date_range[4]
    IN IF start_m = end_m
       THEN month = start_m /\ start_d <= day /\ day <= end_d
       ELSE IF start_m < end_m
       THEN \/ (month = start_m /\ day >= start_d)
            \/ (month = end_m /\ day <= end_d)
            \/ (start_m < month /\ month < end_m)
       ELSE \/ (month = start_m /\ day >= start_d)
            \/ (month = end_m /\ day <= end_d)
            \/ (month > start_m /\ month < end_m)

\* The date range check of detect_holiday_theme.
in_range(date_range, month, day) ==
    LET start_m == date_range[1]
        start_d == date_range[2]
        end_m == date_range[3]
        end_d == date_range[4]
    IN IF start_m = end_m
       THEN month = start_m /\ start_d <= day /\ day <= end_d
       ELSE IF start_m < end_m
       THEN \/ (month = start_m /\ day >= start_d)
            \/ (month = end_m /\ day <= end_d)
            \/ (start_m < month /\ month < end_m)
       ELSE \/ (month = start_m /\ day >= start_d)
            \/ (month = end_m /\ day <= end_d)
            \/ (month > start_m \/ month < end_m)

\* len(theme_colors & detected_colors)
overlap(theme_data, colors) == Cardinality(theme_data.colors \cap set(colors))

\* The dict returned for a theme of the table.
ThemeDict(name, description, colors) ==
    [name |-> name, description |-> description, colors |-> colors]

\* The colour-family check of one theme in range: "match", "nomatch" or
\* "raise".  Both any() calls run before their results are combined.
similarity(theme_name, order) ==
    IF theme_name = "halloween"
    THEN LET has_orange == any([i \in 1..Len(order) |-> is_orange_ish_call(order[i])])
             has_dark == any([i \in 1..Len(order) |-> is_dark_color_call(order[i])])
         IN IF has_orange.raised \/ has_dark.raised THEN "raise"
            ELSE IF has_orange.value /\ has_dark.value THEN "match" ELSE "nomatch"
    ELSE IF theme_name = "christmas"
    THEN LET has_red == any([i \in 1..Len(order) |-> is_red_ish_call(order[i])])
             has_green == any([i \in 1..Len(order) |-> is_green_ish_call(order[i])])
         IN IF has_red.raised \/ has_green.raised THEN "raise"
            ELSE IF has_red.value /\ has_green.value THEN "match" ELSE "nomatch"
    ELSE "nomatch"

\* The tail of detect_holiday_theme with "or" for "and" between the two
\* comparisons with the default palettes.
custom_or_none_either(colors) ==
    IF Cardinality(set(colors) \cap default_light) < 2
       \/ Cardinality(set(colors) \cap default_dark) < 2
    THEN ThemeDict("custom_holiday", "Special GitHub Theme Detected", colors)
    ELSE None

\* The tail of detect_holiday_theme after the loop: custom_holiday or None.
custom_or_none(colors) ==
    IF Cardinality(set(colors) \cap default_light) < 2
       /\ Cardinality(set(colors) \cap default_dark) < 2
    THEN ThemeDict("custom_holiday", "Special GitHub Theme Detected", colors)
    ELSE None

RECURSIVE theme_loop(_, _, _, _, _)
\* The loop over holiday_patterns from entry i on.
theme_loop(i, colors, order, month, day) ==
    IF i > Len(holiday_patterns) THEN custom_or_none(colors)
    ELSE LET theme_data == holiday_patterns[i]
         IN IF ~in_range(theme_data.date_range, month, day)
            THEN theme_loop(i + 1, colors, order, month, day)
            ELSE IF overlap(theme_data, colors) >= 2
            THEN ThemeDict(theme_data.name, theme_data.description, colors)
            ELSE LET sim == similarity(theme_data.name, order)
                 IN IF sim = "raise" THEN ValueError
                    ELSE IF sim = "match"
                    THEN ThemeDict(theme_data.name, theme_data.description, colors)
                    ELSE theme_loop(i + 1, colors, order, month, day)

\* detect_holiday_theme(colors) run on the date (month, day); order is the
\* order in which the set detected_colors is iterated.  colors is a list
\* (NoneList for None).
detect_holiday_theme(colors, order, month, day) ==
    IF colors = NoneList \/ Len(colors) < 3 THEN None
    ELSE theme_loop(1, colors, order, month, day)

(***************************************************************************)
(* Scheme generator                                                        *)
(***************************************************************************)

\* brightness(hex_color) = sum(rgb) / 3.  Only the order of the keys is
\* used, and it is the order of the sums r + g + b.
brightness(hex_color) == Red(hex_color) + Green(hex_color) + Blue(hex_color)

RECURSIVE sorted_by_brightness_last_tie(_)
\* A sort by brightness that is not stable: among colours of equal
\* brightness the one that comes last in colors goes first.
sorted_by_brightness_last_tie(list) ==
    IF list = <<>> THEN <<>>
    ELSE LET least == {j \in 1..Len(list) :
                          \A k \in 1..Len(list) : brightness(list[j]) <= brightness(list[k])}
             i == CHOOSE j \in least : \A k \in least : j >= k
         IN <<list[i]>> \o
            sorted_by_brightness_last_tie(SubSeq(list, 1, i - 1)
                                          \o SubSeq(list, i + 1, Len(list)))

RECURSIVE sorted_by_brightness(_)
\* sorted(colors, key=brightness): a stable sort, so among colours of equal
\* brightness the one that comes first in colors stays first.
sorted_by_brightness(list) ==
    IF list = <<>> THEN <<>>
    ELSE LET i == Min({j \in 1..Len(list) :
                        \A k \in 1..Len(list) : brightness(list[j]) <= brightness(list[k])})
         IN <<list[i]>> \o
            sorted_by_brightness(SubSeq(list, 1, i - 1) \o SubSeq(list, i + 1, Len(list)))

RECURSIVE pad_with_first(_)
\* The padding loop appending sorted_colors[0], the darkest colour.
pad_with_first(list) ==
    IF Len(list) >= 5 THEN list ELSE pad_with_first(Append(list, list[1]))

RECURSIVE pad_to_five(_)
\* while len(sorted_colors) < 5: sorted_colors.append(sorted_colors[-1])
pad_to_five(list) ==
    IF Len(list) >= 5 THEN list ELSE pad_to_five(Append(list, list[Len(list)]))

\* generate_color_scheme taking sorted_colors[:5] as the dots in light mode.
generate_color_scheme_light_first(theme, mode) ==
    IF theme = None \/ theme.colors = <<>> THEN None
    ELSE IF \E i \in 1..Len(theme.colors) : ParseRaises(theme.colors[i]) THEN ValueError
    ELSE LET sorted_colors == pad_to_five(sorted_by_brightness(theme.colors))
             n == Len(sorted_colors)
         IN IF mode = "light"
            THEN [style |-> theme.description,
                  snake |-> sorted_colors[n],
                  dots |-> SubSeq(sorted_colors, 1, 5)]
            ELSE [style |-> theme.description,
                  snake |-> IF n > 5 THEN sorted_colors[(n \div 2) + 1]
                            ELSE sorted_colors[n],
                  dots |-> SubSeq(sorted_colors, 1, 5)]

\* generate_color_scheme taking sorted_colors[(len - 1) // 2] as the snake of
\* a long palette in dark mode.
generate_color_scheme_dark_low_middle(theme, mode) ==
    IF theme = None \/ theme.colors = <<>> THEN None
    ELSE IF \E i \in 1..Len(theme.colors) : ParseRaises(theme.colors[i]) THEN ValueError
    ELSE LET sorted_colors == pad_to_five(sorted_by_brightness(theme.colors))
             n == Len(sorted_colors)
         IN IF mode = "light"
            THEN [style |-> theme.description,
                  snake |-> sorted_colors[n],
                  dots |-> SubSeq(sorted_colors, n - 4, n)]
            ELSE [style |-> theme.description,
                  snake |-> IF n > 5 THEN sorted_colors[((n - 1) \div 2) + 1]
                            ELSE sorted_colors[n],
                  dots |-> SubSeq(sorted_colors, 1, 5)]

\* generate_color_scheme(theme, mode): None, ValueError or the scheme dict.
generate_color_scheme(theme, mode) ==
    IF theme = None \/ theme.colors = <<>> THEN None
    ELSE IF \E i \in 1..Len(theme.colors) : ParseRaises(theme.colors[i]) THEN ValueError
    ELSE LET sorted_colors == pad_to_five(sorted_by_brightness(theme.colors))
             n == Len(sorted_colors)
         IN IF mode = "light"
            THEN [style |-> theme.description,
                  snake |-> sorted_colors[n],
                  dots |-> SubSeq(sorted_colors, n - 4, n)]
            ELSE [style |-> theme.description,
                  snake |-> IF n > 5 THEN sorted_colors[(n \div 2) + 1]
                            ELSE sorted_colors[n],
                  dots |-> SubSeq(sorted_colors, 1, 5)]

(***************************************************************************)
(* Themes by name                                                          *)
(***************************************************************************)

\* create_theme_from_name(holiday_name): holiday_colors.get(holiday_name)
create_theme_from_name(holiday_name) ==
    CASE holiday_name = "halloween" ->
            ThemeDict("halloween", "Halloween Theme (Orange & Black)",
                      <<x000000, x8B4513, FF6347, FF8C00, FFA500, FFD700>>)
      [] holiday_name = "christmas" ->
            ThemeDict("christmas", "Christmas Theme (Red & Green)",
                      <<x006400, x228B22, DC143C, FF0000, FFD700, FFFFFF>>)
      [] holiday_name = "lunar_new_year" ->
            ThemeDict("lunar_new_year", "Lunar New Year Theme (Red & Gold)",
                      <<x8B0000, DC143C, FF0000, FF6347, FFD700, FFA500>>)
      [] holiday_name = "pride" ->
            ThemeDict("pride", "Pride Month Theme (Rainbow)",
                      <<FF0000, FFA500, FFFF00, x008000, x0000FF, x800080>>)
      [] holiday_name = "valentines" ->
            ThemeDict("valentines", "Valentine's Day Theme (Pink & Red)",
                      <<FF1493, FF69B4, FFB6C1, DC143C, FF0000>>)
      [] OTHER -> None

\* f'{holiday_name.title()} Theme' for the identifiers outside descriptions.
title_theme(holiday_name) ==
    CASE holiday_name = "thanksgiving" -> "Thanksgiving Theme"
      [] holiday_name = "new_year" -> "New_Year Theme"
      [] OTHER -> "Theme"

\* create_theme_from_colors_and_name(colors, holiday_name)
create_theme_from_colors_and_name(colors, holiday_name) ==
    LET description ==
          CASE holiday_name = "halloween" -> "Halloween Theme (Orange & Black)"
            [] holiday_name = "christmas" -> "Christmas Theme (Red & Green)"
            [] holiday_name = "lunar_new_year" -> "Lunar New Year Theme (Red & Gold)"
            [] holiday_name = "pride" -> "Pride Month Theme (Rainbow)"
            [] holiday_name = "valentines" -> "Valentine's Day Theme (Pink & Red)"
            [] OTHER -> title_theme(holiday_name)
    IN ThemeDict(holiday_name, description, colors)

(***************************************************************************)
(* Message extractor                                                       *)
(*                                                                         *)
(* A text is modelled by the set of phrases written in it (lower case).   *)
(* A pattern occurs in the text when it is a substring of a written       *)
(* phrase.                                                                 *)
(***************************************************************************)

\* holiday_messages, in the insertion order in which the dict is iterated.
holiday_messages == <<
    [holiday |-> "halloween",
     patterns |-> {"happy halloween", "halloween", "emoji jack-o-lantern", "trick or treat"}],
    [holiday |-> "christmas",
     patterns |-> {"merry christmas", "happy holidays", "season's greetings",
                   "emoji christmas tree", "emoji santa"}],
    [holiday |-> "lunar_new_year",
     patterns |-> {"happy lunar new year", "happy new year", "lunar new year",
                   "emoji red envelope", "emoji dragon"}],
    [holiday |-> "valentines",
     patterns |-> {"happy valentine", "valentine's day", "emoji heart with ribbon",
                   "emoji red heart"}],
    [holiday |-> "pride",
     patterns |-> {"happy pride", "pride month", "emoji rainbow flag"}],
    [holiday |-> "thanksgiving",
     patterns |-> {"happy thanksgiving", "thanksgiving", "emoji turkey"}],
    [holiday |-> "new_year",
     patterns |-> {"happy new year", "emoji fireworks", "emoji confetti ball"}] >>

\* pattern in content_lower, for the phrases of holiday_messages.
pattern_in(pattern, content_lower) ==
    \/ pattern \in content_lower
    \/ pattern = "halloween" /\ "happy halloween" \in content_lower
    \/ pattern = "lunar new year" /\ "happy lunar new year" \in content_lower
    \/ pattern = "thanksgiving" /\ "happy thanksgiving" \in content_lower

\* detect_holiday_message(html_content): the first holiday of the table one
\* of whose patterns occurs, or None.
detect_holiday_message(html_content) ==
    IF html_content = None THEN NoneName
    ELSE LET found == {i \in 1..Len(holiday_messages) :
                         \E pattern \in holiday_messages[i].patterns :
                             pattern_in(pattern, html_content.text)}
         IN IF found = {} THEN NoneName ELSE holiday_messages[Min(found)].holiday

(***************************************************************************)
(* Colour extractor                                                        *)
(*                                                                         *)
(* A fetched document is a record                                          *)
(*   text           the phrases written in it,                             *)
(*   rects          its rect elements,                                     *)
(*   style_fill     the strings that follow 'fill: #' in its style tags,   *)
(*   style_calendar the strings that follow '--color-calendar...: #' in    *)
(*                  its style tags.                                        *)
(* A rect is a record                                                      *)
(*   fill   None (no attribute), [kind |-> "hex", body |-> s] for the      *)
(*          value '#' + s, or [kind |-> "var"] for 'var(--...)',           *)
(*   style  None, or [kind |-> "fill", body |-> s] for 'fill: #' + s, or   *)
(*          [kind |-> "fillvar"] for 'fill: var(--...)',                   *)
(*   data_level, data_date   the element carries that attribute,           *)
(*   calendar_svg   it lies in an svg of class js-calendar-graph-svg,      *)
(*          whose markup therefore contains the word 'calendar'.           *)
(***************************************************************************)

\* The group captured by (#[0-9a-fA-F]{6}) at the '#' that starts s, as a
\* set: empty when the six characters after the '#' are not all hex digits.
hex6_match(s) ==
    IF Len(s) >= 6 /\ \A i \in 1..6 : IsHexChar(s[i])
    THEN {upper(SubSeq(s, 1, 6))} ELSE {}

fill_startswith_hash(rect) == rect.fill # None /\ rect.fill.kind = "hex"

style_has_fill(rect) == rect.style # None

\* re.search(r'fill:\s*(#[0-9a-fA-F]{6})', style), upper-cased.
style_colors(rect) ==
    IF rect.style # None /\ rect.style.kind = "fill" THEN hex6_match(rect.style.body) ELSE {}

\* The colours one rect adds in the graph branch: fill first, style second.
graph_rect_colors(rect) ==
    IF fill_startswith_hash(rect) THEN {upper(rect.fill.body)}
    ELSE IF style_has_fill(rect) THEN style_colors(rect)
    ELSE {}

\* The colours one cell adds in the profile branch: style first, fill second.
profile_cell_colors(cell) ==
    IF style_has_fill(cell) THEN style_colors(cell)
    ELSE IF fill_startswith_hash(cell) THEN {upper(cell.fill.body)}
    ELSE {}

\* The three selectors tried in turn for the contribution cells.
contribution_cells(doc) ==
    LET by_level == {r \in doc.rects : r.data_level}
        by_date == {r \in doc.rects : r.data_date}
        by_class == {r \in doc.rects : r.calendar_svg}
    IN IF by_level # {} THEN by_level
       ELSE IF by_date # {} THEN by_date
       ELSE by_class

\* re.findall(r'fill=["\']?(#[0-9a-fA-F]{6})', svg_string) over the svgs
\* whose markup mentions 'calendar' or 'contribution'.
svg_colors(doc) ==
    UNION {hex6_match(r.fill.body) : r \in {x \in doc.rects : x.calendar_svg
                                                /\ fill_startswith_hash(x)}}

\* extract_contribution_colors(html_content, is_graph_svg): a sorted list
\* of colours, or None.
extract_contribution_colors(html_content, is_graph_svg) ==
    IF html_content = None THEN NoneList
    ELSE LET colors ==
               IF is_graph_svg
               THEN UNION {graph_rect_colors(r) : r \in html_content.rects}
                    \cup UNION {hex6_match(s) : s \in html_content.style_fill}
               ELSE UNION {profile_cell_colors(c) : c \in contribution_cells(html_content)}
                    \cup UNION {hex6_match(s) : s \in html_content.style_calendar}
                    \cup svg_colors(html_content)
         IN IF colors # {} THEN sorted(colors) ELSE NoneList

(***************************************************************************)
(* Bounds and inputs                                                       *)
(***************************************************************************)

\* A fetched document has at most this many rect elements.
MaxRects == 3

\* A fetched document has at most this many holiday phrases written in it.
MaxPhrases == 1

\* A colour list handed to detect_holiday_theme on its own has at most this
\* many colours.
MaxColors == 3

HexFill(body) == [kind |-> "hex", body |-> body]

Cell(fill, style) ==
    [fill |-> fill, style |-> style, data_level |-> TRUE, data_date |-> TRUE,
     calendar_svg |-> TRUE]

x111111 == Hex(17, 17, 17)
x123456 == Hex(18, 52, 86)

\* The rect elements documents are built from: upper-case and lower-case
\* fills, a colour declared in a style attribute, two colours of the
\* default palette, the short form '#fff' and a CSS variable.
RectUniverse ==
    { Cell(HexFill(FF8C00), None),
      Cell(HexFill(x000000), None),
      Cell(HexFill(<<21, 21, 16, 5, 0, 0>>), None),
      Cell(None, [kind |-> "fill", body |-> x111111]),
      Cell(HexFill(x9BE9A8), None),
      Cell(HexFill(x40C463), None),
      Cell(HexFill(<<21, 21, 21>>), None),
      Cell([kind |-> "var"], None) }

\* One phrase or emoji of every holiday, and the phrase two holidays share.
PhraseUniverse ==
    { "happy halloween", "merry christmas", "happy new year", "lunar new year",
      "happy valentine", "pride month", "thanksgiving", "emoji fireworks" }

Docs ==
    { [text |-> t, rects |-> r, style_fill |-> {}, style_calendar |-> {}] :
        t \in {x \in SUBSET PhraseUniverse : Cardinality(x) <= MaxPhrases},
        r \in {x \in SUBSET RectUniverse : Cardinality(x) <= MaxRects} }

\* What a fetch returns: the response text, or None on any exception.
FetchOutcomes == Docs \cup {None}

\* The days on which the script is run.
RunDates == { <<10, 31>>, <<12, 25>>, <<3, 3>> }

(***************************************************************************)
(* Orchestrator: main()                                                    *)
(***************************************************************************)

VARIABLES pc, current_date, graph_html, html, holiday_from_message, colors,
          theme, emitted

VARIABLES hex_color, verdict, date_range, active

VARIABLES mode, schemes

main_vars == <<pc, current_date, graph_html, html, holiday_from_message, colors,
               theme, emitted>>

main_vars_but_pc == <<current_date, graph_html, html, holiday_from_message, colors,
                      theme, emitted>>

harness_vars == <<hex_color, verdict, date_range, active, mode, schemes>>

vars == <<pc, current_date, graph_html, html, holiday_from_message, colors,
          theme, emitted, hex_color, verdict, date_range, active, mode, schemes>>

\* Python's "not colors" for a list or None.
Falsy(x) == x = NoneList

RECURSIVE join(_)
\* ', '.join(dots)
join(dots) ==
    IF dots = <<>> THEN <<>>
    ELSE IF Len(dots) = 1 THEN <<23>> \o dots[1]
    ELSE <<23>> \o dots[1] \o <<24, 25>> \o join(Tail(dots))

\* output_result(result): the record goes to the output sinks.
output_result(result) == emitted' = Append(emitted, result)

\* The result dict built from a theme and its two schemes.
holiday_result(theme_name, th, light_scheme, dark_scheme, detection_method) ==
    [holiday_detected |-> TRUE,
     theme_name |-> theme_name,
     theme_description |-> th.description,
     light_color |-> light_scheme.snake,
     dark_color |-> dark_scheme.snake,
     light_dots |-> join(light_scheme.dots),
     dark_dots |-> join(dark_scheme.dots),
     all_colors |-> th.colors,
     detection_method |-> detection_method]

\* No scheme is being generated on its own.
SchemeIdle ==
    /\ mode = "light"
    /\ schemes = <<>>

HarnessIdle ==
    /\ hex_color = <<>>
    /\ verdict = None
    /\ date_range = <<>>
    /\ active = FALSE
    /\ SchemeIdle

Init ==
    /\ pc = "method1"
    /\ current_date \in RunDates
    /\ graph_html = None
    /\ html = None
    /\ holiday_from_message = NoneName
    /\ colors = NoneList
    /\ theme = None
    /\ emitted = <<>>
    /\ HarnessIdle

\* Method 1: fetch the contribution graph, look for a message, extract colours.
FetchGraph ==
    /\ pc = "method1"
    /\ \E fetched \in FetchOutcomes :
         /\ graph_html' = fetched
         /\ holiday_from_message' =
              IF fetched # None THEN detect_holiday_message(fetched) ELSE NoneName
         /\ colors' =
              IF fetched # None THEN extract_contribution_colors(fetched, TRUE) ELSE NoneList
    /\ pc' = "method2"
    /\ UNCHANGED <<current_date, html, theme, emitted, harness_vars>>

\* Method 2: fetch the full profile page when method 1 gave nothing.
FetchProfile ==
    /\ pc = "method2"
    /\ Falsy(colors) /\ holiday_from_message = NoneName
    /\ \E fetched \in FetchOutcomes :
         /\ html' = fetched
         /\ holiday_from_message' =
              IF fetched # None /\ holiday_from_message = NoneName
              THEN detect_holiday_message(fetched) ELSE holiday_from_message
         /\ colors' =
              IF fetched # None THEN extract_contribution_colors(fetched, FALSE) ELSE NoneList
    /\ pc' = "message"
    /\ UNCHANGED <<current_date, graph_html, theme, emitted, harness_vars>>

SkipProfile ==
    /\ pc = "method2"
    /\ ~(Falsy(colors) /\ holiday_from_message = NoneName)
    /\ pc' = "message"
    /\ UNCHANGED <<current_date, graph_html, html, holiday_from_message, colors,
                   theme, emitted, harness_vars>>

\* A message but no colours: the predefined colours of that holiday.
MessageWithoutColors ==
    /\ pc = "message"
    /\ holiday_from_message # NoneName /\ Falsy(colors)
    /\ LET th == create_theme_from_name(holiday_from_message)
           light_scheme == generate_color_scheme(th, "light")
           dark_scheme == generate_color_scheme(th, "dark")
       IN /\ theme' = th
          /\ IF th # None
             THEN IF light_scheme = ValueError \/ dark_scheme = ValueError
                  THEN pc' = "raised" /\ UNCHANGED emitted
                  ELSE /\ output_result(holiday_result(holiday_from_message, th,
                                            light_scheme, dark_scheme, "message"))
                       /\ pc' = "done"
             ELSE pc' = "nocolors" /\ UNCHANGED emitted
    /\ UNCHANGED <<current_date, graph_html, html, holiday_from_message, colors,
                   harness_vars>>

SkipMessageWithoutColors ==
    /\ pc = "message"
    /\ ~(holiday_from_message # NoneName /\ Falsy(colors))
    /\ pc' = "nocolors"
    /\ UNCHANGED <<current_date, graph_html, html, holiday_from_message, colors,
                   theme, emitted, harness_vars>>

\* No colours: the default scheme.
NoColors ==
    /\ pc = "nocolors"
    /\ Falsy(colors)
    /\ output_result([holiday_detected |-> FALSE])
    /\ pc' = "done"
    /\ UNCHANGED <<current_date, graph_html, html, holiday_from_message, colors,
                   theme, harness_vars>>

\* Detect the theme from the colours; a message names the theme when the
\* colours gave none.
DetectTheme ==
    /\ pc = "nocolors"
    /\ ~Falsy(colors)
    /\ \E order \in IterationOrders(set(colors)) :
         LET detected == detect_holiday_theme(colors, order, current_date[1],
                                              current_date[2])
         IN IF detected = ValueError
            THEN pc' = "raised" /\ UNCHANGED theme
            ELSE /\ theme' = IF holiday_from_message # NoneName /\ detected = None
                             THEN create_theme_from_colors_and_name(colors,
                                                                    holiday_from_message)
                             ELSE detected
                 /\ pc' = "theme"
    /\ UNCHANGED <<current_date, graph_html, html, holiday_from_message, colors,
                   emitted, harness_vars>>

\* No theme: the default scheme.
NoTheme ==
    /\ pc = "theme"
    /\ theme = None
    /\ output_result([holiday_detected |-> FALSE])
    /\ pc' = "done"
    /\ UNCHANGED <<current_date, graph_html, html, holiday_from_message, colors,
                   theme, harness_vars>>

\* A theme: generate both schemes and emit the result.
EmitTheme ==
    /\ pc = "theme"
    /\ theme # None
    /\ LET light_scheme == generate_color_scheme(theme, "light")
           dark_scheme == generate_color_scheme(theme, "dark")
           detection_method == IF holiday_from_message # NoneName THEN "message" ELSE "colors"
       IN IF light_scheme = ValueError \/ dark_scheme = ValueError
          THEN pc' = "raised" /\ UNCHANGED emitted
          ELSE /\ output_result(holiday_result(theme.name, theme, light_scheme,
                                               dark_scheme, detection_method))
               /\ pc' = "done"
    /\ UNCHANGED <<current_date, graph_html, html, holiday_from_message, colors,
                   theme, harness_vars>>

Next ==
    \/ FetchGraph
    \/ FetchProfile
    \/ SkipProfile
    \/ MessageWithoutColors
    \/ SkipMessageWithoutColors
    \/ NoColors
    \/ DetectTheme
    \/ NoTheme
    \/ EmitTheme

Spec == Init /\ [][Next]_vars

(***************************************************************************)
(* detect_holiday_theme called on its own                                  *)
(***************************************************************************)

DaysIn(month) ==
    IF month = 2 THEN 29 ELSE IF month \in {4, 6, 9, 11} THEN 30 ELSE 31

CalendarDates == {<<m, d>> : m \in 1..12, d \in 1..31} \ {<<m, d>> \in (1..12) \X (1..31) : d > DaysIn(m)}

\* Colours of the reference palettes, of the hue families, of the default
\* palettes and one colour that belongs to none of them.
MatcherUniverse ==
    { FF0000, x123456, FFA500, x000000, x9BE9A8, x40C463, x161B22, x0E4429 }

\* The lists of at most MaxColors colours of the universe, the two default
\* palettes, the list #123456, #228B22, #FF0000 and the valentines palette
\* of create_theme_from_name.
MatcherLists ==
    {sorted(S) : S \in {x \in SUBSET MatcherUniverse : Cardinality(x) <= MaxColors}}
    \cup {sorted(default_light), sorted(default_dark), sorted({FF0000, x228B22, x123456}),
          sorted(set(create_theme_from_name("valentines").colors))}

InitMatcher ==
    /\ pc = "call"
    /\ current_date \in CalendarDates
    /\ colors \in MatcherLists
    /\ theme = None
    /\ graph_html = None
    /\ html = None
    /\ holiday_from_message = NoneName
    /\ emitted = <<>>
    /\ HarnessIdle

\* theme = detect_holiday_theme(colors)
CallDetect ==
    /\ pc = "call"
    /\ \E order \in IterationOrders(set(colors)) :
         theme' = detect_holiday_theme(colors, order, current_date[1], current_date[2])
    /\ pc' = "returned"
    /\ UNCHANGED <<current_date, graph_html, html, holiday_from_message, colors,
                   emitted, harness_vars>>

NextMatcher == CallDetect

SpecMatcher == InitMatcher /\ [][NextMatcher]_vars

(***************************************************************************)
(* The date range check called on its own                                  *)
(***************************************************************************)

\* Ranges inside one month, across adjacent and distant months and across
\* the year end, among them (12, 20) - (1, 5).
RangeEnds == {1, 6, 7, 12} \X {1, 5, 20}

InitRange ==
    /\ pc = "call"
    /\ current_date \in CalendarDates
    /\ date_range \in {<<s[1], s[2], e[1], e[2]>> : s \in RangeEnds, e \in RangeEnds}
    /\ active = FALSE
    /\ hex_color = <<>>
    /\ verdict = None
    /\ SchemeIdle
    /\ colors = NoneList
    /\ theme = None
    /\ graph_html = None
    /\ html = None
    /\ holiday_from_message = NoneName
    /\ emitted = <<>>

\* in_range for one theme's date_range on the current date.
CheckRange ==
    /\ pc = "call"
    /\ active' = in_range(date_range, current_date[1], current_date[2])
    /\ pc' = "returned"
    /\ UNCHANGED <<main_vars_but_pc, hex_color, verdict, date_range, mode, schemes>>

NextRange == CheckRange

SpecRange == InitRange /\ [][NextRange]_vars

(***************************************************************************)
(* The classifier called on its own                                        *)
(***************************************************************************)

\* Channel values on both sides of every threshold of the four predicates.
ChannelSamples ==
    {0, 79, 80, 99, 100, 101, 120, 127, 149, 150, 151, 170, 180, 181, 200, 201, 202, 226, 255}

InitClassifier ==
    /\ pc = "call"
    /\ hex_color \in {Hex(r, g, b) : r \in ChannelSamples, g \in ChannelSamples,
                                     b \in ChannelSamples}
    /\ verdict = None
    /\ date_range = <<>>
    /\ active = FALSE
    /\ SchemeIdle
    /\ current_date = <<1, 1>>
    /\ colors = NoneList
    /\ theme = None
    /\ graph_html = None
    /\ html = None
    /\ holiday_from_message = NoneName
    /\ emitted = <<>>

\* The four predicates applied to one colour.
Classify ==
    /\ pc = "call"
    /\ verdict' = [orange |-> is_orange_ish(hex_color),
                   dark |-> is_dark_color(hex_color),
                   red |-> is_red_ish(hex_color),
                   green |-> is_green_ish(hex_color)]
    /\ pc' = "returned"
    /\ UNCHANGED <<main_vars_but_pc, hex_color, date_range, active, mode, schemes>>

NextClassifier == Classify

SpecClassifier == InitClassifier /\ [][NextClassifier]_vars

(***************************************************************************)
(* generate_color_scheme called on its own                                 *)
(***************************************************************************)

\* A palette handed to generate_color_scheme on its own has at most this
\* many colours.
MaxPalette == 6

\* Three colours of two brightnesses: #FF0000 and #00FF00 are equally
\* bright.
PaletteUniverse == { x000000, FF0000, x00FF00 }

RECURSIVE Lists(_, _)
\* The lists of exactly n elements of S.
Lists(S, n) ==
    IF n = 0 THEN {<<>>}
    ELSE {Append(l, x) : l \in Lists(S, n - 1), x \in S}

\* The lists of 1 to MaxPalette colours of the universe and the palettes of
\* create_theme_from_name.
Palettes ==
    UNION {Lists(PaletteUniverse, n) : n \in 1..MaxPalette}
    \cup {create_theme_from_name(h).colors :
            h \in {"halloween", "christmas", "lunar_new_year", "pride", "valentines"}}

InitScheme ==
    /\ pc = "call"
    /\ mode \in {"light", "dark"}
    /\ schemes = <<>>
    /\ \E palette \in Palettes :
         theme = ThemeDict("custom_holiday", "Special GitHub Theme Detected", palette)
    /\ hex_color = <<>>
    /\ verdict = None
    /\ date_range = <<>>
    /\ active = FALSE
    /\ current_date = <<1, 1>>
    /\ colors = NoneList
    /\ graph_html = None
    /\ html = None
    /\ holiday_from_message = NoneName
    /\ emitted = <<>>

\* scheme = generate_color_scheme(theme, mode)
Generate ==
    /\ pc = "call"
    /\ schemes' = <<generate_color_scheme(theme, mode)>>
    /\ pc' = "returned"
    /\ UNCHANGED <<main_vars_but_pc, hex_color, verdict, date_range, active, mode>>

\* generate_color_scheme applied again, to a theme whose colours are the
\* dots of the first scheme.
Regenerate ==
    /\ pc = "returned"
    /\ schemes' = Append(schemes,
                         generate_color_scheme([theme EXCEPT !.colors = schemes[1].dots],
                                               mode))
    /\ pc' = "again"
    /\ UNCHANGED <<main_vars_but_pc, hex_color, verdict, date_range, active, mode>>

NextScheme == Generate \/ Regenerate

SpecScheme == InitScheme /\ [][NextScheme]_vars

(***************************************************************************)
(* Properties of the orchestrator (specification Spec)                     *)
(***************************************************************************)

\* main() has stopped: it returned, or an exception escaped it.
Stopped == pc \in {"done", "raised"}

HasField(r, f) == f \in DOMAIN r

\* The emitted result is a holiday result.
EmittedHoliday == pc = "done" /\ Len(emitted) = 1 /\ emitted[1].holiday_detected

\* detect_holiday_theme chose a theme from the extracted colours.
ChosenFromColors ==
    /\ colors # NoneList
    /\ \E order \in IterationOrders(set(colors)) :
         detect_holiday_theme(colors, order, current_date[1], current_date[2])
             \notin {None, ValueError}

\* C1: whenever the message extractor returned a theme identifier m and a
\* non-empty colour list was extracted, the emitted result has theme_name = m;
\* the outcome of the colour matcher never replaces it.
C1_MessageTrustedOutright ==
    (pc = "done" /\ holiday_from_message # NoneName /\ colors # NoneList)
        => /\ Len(emitted) = 1
           /\ HasField(emitted[1], "theme_name")
           /\ emitted[1].theme_name = holiday_from_message

\* C2: for every identifier m that detect_holiday_message can return, a run
\* with no colours extracted and message m emits holiday_detected = true,
\* theme_name = m and detection_method = 'message'.
C2_MessageWithoutColours ==
    (pc = "done" /\ holiday_from_message # NoneName /\ colors = NoneList)
        => /\ Len(emitted) = 1
           /\ emitted[1].holiday_detected
           /\ emitted[1].theme_name = holiday_from_message
           /\ emitted[1].detection_method = "message"

\* C3: in every emitted holiday result detection_method names the tier that
\* produced theme_name: 'message' only when theme_name is the identifier the
\* message extractor returned, 'colors' whenever detect_holiday_theme chose
\* the theme from the colours.
C3_MethodNamesTier ==
    EmittedHoliday
        => /\ (emitted[1].detection_method = "message"
                 => emitted[1].theme_name = holiday_from_message)
           /\ (ChosenFromColors => emitted[1].detection_method = "colors")

\* C4: when every tier yields null (no colours and no message) the emitted
\* result has holiday_detected = false, theme_name = 'default' and the
\* canonical default five-colour sequences as light_dots and dark_dots.
C4_DefaultResult ==
    (pc = "done" /\ holiday_from_message = NoneName /\ colors = NoneList)
        => /\ Len(emitted) = 1
           /\ ~emitted[1].holiday_detected
           /\ HasField(emitted[1], "theme_name")
           /\ emitted[1].theme_name = "default"
           /\ HasField(emitted[1], "light_dots")
           /\ emitted[1].light_dots = join(<<EBEDF0, x9BE9A8, x40C463, x30A14E, x216E39>>)
           /\ HasField(emitted[1], "dark_dots")
           /\ emitted[1].dark_dots = join(<<x161B22, x0E4429, x006D32, x26A641, x39D353>>)

\* C5: for every combination of tier outcomes a run reaches output_result,
\* emits exactly one result record and then stops; no run stops without a
\* result.
C5_EveryRunEmitsOneResult == Stopped => Len(emitted) = 1

\* C6: an extraction of fewer than 3 distinct colours is treated like a null
\* result: the full-profile fetch follows as it does when no colours were
\* found, and those 1 or 2 colours are never the palette of an emitted
\* holiday result.
C6_FewColoursAreNull ==
    /\ (pc = "method2" /\ holiday_from_message = NoneName /\ Len(colors) < 3)
          => ENABLED FetchProfile
    /\ EmittedHoliday => Len(emitted[1].all_colors) >= 3

(***************************************************************************)
(* Properties of detect_holiday_theme (specification SpecMatcher)          *)
(***************************************************************************)

ChristmasPalette == holiday_patterns[2].colors

\* The ColorSet {#FF0000, #228B22, #123456} was matched on a December date.
C7_Case ==
    pc = "returned" /\ set(colors) = {FF0000, x228B22, x123456} /\ current_date[1] = 12

\* C7 as stated: the set is matched as christmas through the hue rule, with
\* zero colours in common with the christmas palette, a red-ish colour and a
\* green-ish colour.
C7_ChristmasByHueRule ==
    C7_Case
        => /\ theme # None /\ theme.name = "christmas"
           /\ Cardinality(set(colors) \cap ChristmasPalette) = 0
           /\ \E c \in set(colors) : is_red_ish(c)
           /\ \E c \in set(colors) : is_green_ish(c)

\* C7 amended: the set is matched as christmas on every December date through
\* the direct overlap rule: it shares the 2 colours #FF0000 and #228B22 with
\* the christmas palette; #FF0000 is red-ish and none of its colours is
\* green-ish.
C7_ChristmasByOverlap ==
    C7_Case
        => /\ theme # None /\ theme.name = "christmas"
           /\ set(colors) \cap ChristmasPalette = {FF0000, x228B22}
           /\ is_red_ish(FF0000)
           /\ ~\E c \in set(colors) : is_green_ish(c)

C7_Witness ==
    C7_Case /\ current_date = <<12, 25>> /\ theme # None /\ theme.name = "christmas"

\* Catalog theme i matches the colours on the current date: the date is in
\* its range and the colours overlap its palette in 2 colours or satisfy
\* its hue rule.
CatalogMatch(i) ==
    LET t == holiday_patterns[i]
        cs == set(colors)
    IN /\ in_range(t.date_range, current_date[1], current_date[2])
       /\ \/ Cardinality(cs \cap t.colors) >= 2
          \/ t.name = "halloween" /\ (\E c \in cs : is_orange_ish(c))
                                  /\ (\E c \in cs : is_dark_color(c))
          \/ t.name = "christmas" /\ (\E c \in cs : is_red_ish(c))
                                  /\ (\E c \in cs : is_green_ish(c))

NoCatalogMatch == \A i \in 1..Len(holiday_patterns) : ~CatalogMatch(i)

DiffersFromDefaults ==
    /\ Cardinality(set(colors) \cap default_light) < 2
    /\ Cardinality(set(colors) \cap default_dark) < 2

IsCustomHoliday(t) == t # None /\ t.name = "custom_holiday"

\* C9 as stated: for every non-empty ColorSet, of any size, that no catalog
\* theme matches, the result is custom_holiday if the set shares fewer than
\* 2 colours with either default palette, and no theme otherwise.
C9_CustomForAnySize ==
    (pc = "returned" /\ colors # NoneList /\ NoCatalogMatch)
        => IF DiffersFromDefaults THEN IsCustomHoliday(theme) ELSE theme = None

\* C9 amended: that holds for every ColorSet of at least 3 colours; for a
\* set of fewer than 3 colours the result is no theme.
C9_CustomFromThreeColours ==
    /\ (pc = "returned" /\ Len(colors) >= 3 /\ NoCatalogMatch)
          => IF DiffersFromDefaults THEN IsCustomHoliday(theme) ELSE theme = None
    /\ (pc = "returned" /\ Len(colors) < 3) => theme = None

C9_Witness ==
    /\ pc = "returned" /\ Len(colors) = 3 /\ NoCatalogMatch /\ DiffersFromDefaults
    /\ IsCustomHoliday(theme)

(***************************************************************************)
(* Properties of the date range check (specification SpecRange)            *)
(***************************************************************************)

\* a <= b for (month, day) pairs.
DateLE(a, b) == a[1] < b[1] \/ (a[1] = b[1] /\ a[2] <= b[2])

RangeStart == <<date_range[1], date_range[2]>>

RangeEnd == <<date_range[3], date_range[4]>>

\* C8: the date range check is exact: a range with start month <= end month
\* is active iff start <= date <= end, a range that wraps the year end is
\* active iff date >= start or date <= end; (12,20)-(1,5) is active on
\* December 25 and January 2 and inactive on December 19 and January 6.
C8_RangeExact ==
    pc = "returned"
        => /\ active = IF date_range[1] <= date_range[3]
                       THEN DateLE(RangeStart, current_date) /\ DateLE(current_date, RangeEnd)
                       ELSE DateLE(RangeStart, current_date) \/ DateLE(current_date, RangeEnd)
           /\ date_range = <<12, 20, 1, 5>>
                 => /\ current_date \in {<<12, 25>>, <<1, 2>>} => active
                    /\ current_date \in {<<12, 19>>, <<1, 6>>} => ~active

C8_Witness ==
    pc = "returned" /\ date_range = <<12, 20, 1, 5>> /\ current_date = <<1, 2>> /\ active

(***************************************************************************)
(* Properties of the classifier (specification SpecClassifier)             *)
(***************************************************************************)

Count(b) == IF b THEN 1 ELSE 0

\* C10 as stated: for every colour at most one of is_orange_ish, is_red_ish
\* and is_green_ish is true.
C10_AtMostOneFamily ==
    pc = "returned"
        => Count(verdict.orange) + Count(verdict.red) + Count(verdict.green) <= 1

\* C10 amended: no colour is green-ish together with orange-ish or red-ish;
\* orange-ish and red-ish hold together (for example for #FF7F00).
C10_GreenExcludesOthers ==
    /\ pc = "returned" => ~(verdict.green /\ (verdict.orange \/ verdict.red))
    /\ (pc = "returned" /\ hex_color = FF7F00) => verdict.orange /\ verdict.red

C10_Witness ==
    pc = "returned" /\ hex_color = FF7F00 /\ verdict.orange /\ verdict.red /\ ~verdict.green

(***************************************************************************)
(* Properties of generate_color_scheme (specification SpecScheme)          *)
(***************************************************************************)

\* The palette handed to generate_color_scheme.
palette == theme.colors

IsScheme(x) == x # None /\ x # ValueError

\* The colours of seq are in ascending order of brightness.
Ascending(seq) ==
    \A i, j \in 1..Len(seq) : i < j => brightness(seq[i]) <= brightness(seq[j])

\* How often colour c occurs in seq.
Occurrences(seq, c) == Cardinality({i \in 1..Len(seq) : seq[i] = c})

SameColours(seq1, seq2) ==
    \A c \in set(seq1) \cup set(seq2) : Occurrences(seq1, c) = Occurrences(seq2, c)

\* dots takes its colours from seq, none more often than seq has it.
TakenFrom(dots, seq) == \A c \in set(dots) : Occurrences(dots, c) <= Occurrences(seq, c)

\* The colours of seq that dots leaves out.
LeftOut(dots, seq) == {c \in set(seq) : Occurrences(dots, c) < Occurrences(seq, c)}

Brightest(c, seq) == c \in set(seq) /\ \A d \in set(seq) : brightness(d) <= brightness(c)

\* C11: for every palette of 1 to 4 colours and both modes,
\* generate_color_scheme does not fail and returns exactly 5 dots: the
\* palette in ascending order of brightness followed by repetitions of its
\* brightest colour; for a palette of 5 or more colours it returns exactly 5
\* dots too.
C11_ShortPalettePadded ==
    pc = "returned"
        => LET n == Len(palette)
               scheme == schemes[1]
           IN /\ IsScheme(scheme)
              /\ Len(scheme.dots) = 5
              /\ n < 5 => /\ Ascending(SubSeq(scheme.dots, 1, n))
                          /\ SameColours(SubSeq(scheme.dots, 1, n), palette)
                          /\ \A i \in (n + 1)..5 : /\ scheme.dots[i] = scheme.dots[n]
                                                   /\ Brightest(scheme.dots[i], palette)

C11_Witness ==
    /\ pc = "returned" /\ mode = "dark" /\ palette = <<FF0000, x000000>>
    /\ IsScheme(schemes[1])
    /\ schemes[1].dots = <<x000000, FF0000, FF0000, FF0000, FF0000>>

\* C12: in light mode, for every palette of at least 5 colours, the dots are
\* the 5 colours of highest brightness in ascending order and the snake is
\* the brightest colour; for [#000000, #8B4513, #FF6347, #FF8C00, #FFA500,
\* #FFD700] the dots are the five colours other than #000000 and the snake
\* is #FFD700.
C12_LightFiveBrightest ==
    (pc = "returned" /\ mode = "light" /\ Len(palette) >= 5)
        => LET scheme == schemes[1]
           IN /\ IsScheme(scheme)
              /\ Len(scheme.dots) = 5
              /\ Ascending(scheme.dots)
              /\ TakenFrom(scheme.dots, palette)
              /\ \A c \in LeftOut(scheme.dots, palette) :
                    brightness(c) <= brightness(scheme.dots[1])
              /\ Brightest(scheme.snake, palette)
              /\ palette = <<x000000, x8B4513, FF6347, FF8C00, FFA500, FFD700>>
                    => /\ set(scheme.dots) = {x8B4513, FF6347, FF8C00, FFA500, FFD700}
                       /\ scheme.snake = FFD700

C12_Witness ==
    /\ pc = "returned" /\ mode = "light"
    /\ palette = <<x000000, x8B4513, FF6347, FF8C00, FFA500, FFD700>>
    /\ IsScheme(schemes[1])
    /\ schemes[1].dots = <<x8B4513, FF8C00, FFA500, FF6347, FFD700>>
    /\ schemes[1].snake = FFD700

\* The number of palette entries darker than c, and the number not brighter.
Darker(c) == Cardinality({i \in 1..Len(palette) : brightness(palette[i]) < brightness(c)})

NotBrighter(c) ==
    Cardinality({i \in 1..Len(palette) : brightness(palette[i]) <= brightness(c)})

\* C13: in dark mode the dots are the 5 colours of lowest brightness; the
\* snake is the brightest colour when the padded palette has exactly 5
\* entries and the colour at index floor(n/2) of the brightness-sorted
\* palette when it has n > 5 entries.
C13_DarkFiveDarkest ==
    (pc = "returned" /\ mode = "dark")
        => LET scheme == schemes[1]
               n == Len(palette)
           IN /\ IsScheme(scheme)
              /\ Len(scheme.dots) = 5
              /\ Ascending(scheme.dots)
              /\ n >= 5 => /\ TakenFrom(scheme.dots, palette)
                           /\ \A c \in LeftOut(scheme.dots, palette) :
                                 brightness(c) >= brightness(scheme.dots[5])
              /\ n <= 5 => Brightest(scheme.snake, palette)
              /\ n > 5 => /\ scheme.snake \in set(palette)
                          /\ Darker(scheme.snake) <= n \div 2
                          /\ NotBrighter(scheme.snake) > n \div 2

C13_Witness ==
    /\ pc = "returned" /\ mode = "dark"
    /\ palette = <<x000000, x8B4513, FF6347, FF8C00, FFA500, FFD700>>
    /\ IsScheme(schemes[1])
    /\ schemes[1].dots = <<x000000, x8B4513, FF8C00, FFA500, FF6347>>
    /\ schemes[1].snake = FFA500

\* C14: for every palette of exactly 5 colours already in ascending order of
\* brightness (ties allowed), in either mode, the dots equal the input
\* sequence, and generate_color_scheme applied again to those dots returns
\* the same dots and the same snake.
C14_IdempotentOnSortedFive ==
    (pc \in {"returned", "again"} /\ Len(palette) = 5 /\ Ascending(palette))
        => /\ IsScheme(schemes[1])
           /\ schemes[1].dots = palette
           /\ pc = "again" => /\ IsScheme(schemes[2])
                              /\ schemes[2].dots = schemes[1].dots
                              /\ schemes[2].snake = schemes[1].snake

C14_Witness ==
    /\ pc = "again"
    /\ palette = <<x000000, x00FF00, FF0000, x00FF00, FF0000>>
    /\ schemes[2].dots = palette
    /\ schemes[2].snake = FF0000

(***************************************************************************)
(* Properties of extract_contribution_colors (specification Spec)          *)
(***************************************************************************)

\* '#' followed by exactly 6 hex digits.
SixHexDigits(color) == Len(color) = 6 /\ \A i \in 1..6 : IsHexChar(color[i])

\* C15: every colour in the list returned by extract_contribution_colors,
\* in the graph-SVG branch and in the profile-page branch, is '#' followed
\* by exactly 6 hex digits; a fill that starts with '#' but is not a clean
\* 6-hex-digit value never enters the colour list.
C15_OnlySixHexDigitColours ==
    \A i \in 1..Len(colors) : SixHexDigits(colors[i])

(***************************************************************************)
(* The catalog of detect_holiday_theme (specification SpecMatcher)         *)
(***************************************************************************)

CatalogOrder == <<"halloween", "christmas", "lunar_new_year", "pride", "valentines">>

IsCatalogTheme(t) ==
    t # None /\ t # ValueError /\ \E k \in 1..Len(CatalogOrder) : t.name = CatalogOrder[k]

\* detect_holiday_theme returns the theme called name for that theme's own
\* palette on some calendar date.
ReturnedForOwnPalette(name) ==
    LET cs == sorted(set(create_theme_from_name(name).colors))
    IN \E d \in CalendarDates :
          LET t == detect_holiday_theme(cs, cs, d[1], d[2])
          IN IsCatalogTheme(t) /\ t.name = name

\* C16: a catalog theme T is returned only when the date lies in T's date
\* range and the colours share at least 2 colours with T's palette or
\* satisfy T's hue rule; of several qualifying themes the first in the order
\* halloween, christmas, lunar_new_year, pride, valentines is returned; and
\* each of these five themes is returned for some input.
C16_CatalogRuleAndReach ==
    /\ (pc = "returned" /\ IsCatalogTheme(theme))
          => \E i \in 1..Len(holiday_patterns) :
                /\ holiday_patterns[i].name = theme.name
                /\ CatalogMatch(i)
                /\ \A j \in 1..(i - 1) : ~CatalogMatch(j)
    /\ \A k \in 1..Len(CatalogOrder) : ReturnedForOwnPalette(CatalogOrder[k])

(***************************************************************************)
(* The stock palettes (specification SpecMatcher)                          *)
(***************************************************************************)

\* C17: on every calendar date detect_holiday_theme applied to the default
\* light palette or to the default dark palette returns no theme: neither a
\* catalog theme nor custom_holiday.
C17_NoThemeForStockPalettes ==
    (pc = "returned" /\ set(colors) \in {default_light, default_dark})
        => theme = None

C17_Witness ==
    /\ pc = "returned"
    /\ set(colors) = default_light
    /\ current_date = <<12, 25>>
    /\ theme = None

====
